---- MODULE Spec2Model ----
(***************************************************************************)
(* Digital Forge MCP RAG: the FastAPI server (src/rag_mcp_server.py) and   *)
(* the setup script (src/setup_rag.py) running against one Qdrant store.   *)
(*                                                                         *)
(* Texts are sequences of one-character strings.  The store, the embedding *)
(* provider and the langchain splitter are external services: they are     *)
(* modelled by what the calls in the source rely on, and any call to the   *)
(* store or to the embedding provider may fail.                            *)
(***************************************************************************)
EXTENDS Integers, Sequences, FiniteSets, TLC

\* ------------------------------------------------------------- bounds
\* How many add_knowledge requests reach the store in a behaviour.
MaxAdds == 1

\* ---------------------------------------------------- program constants
COLLECTION_NAME == "digital_forge_knowledge"
\* Another collection name a request may carry.
OTHER_NAME == "kb"
Names == {COLLECTION_NAME, OTHER_NAME}

\* chunk_size=1000 and chunk_overlap=200 of both splitters, scaled 200:1.
chunk_size == 5
chunk_overlap == 1
\* batch_size = 100 of index_documents, scaled 50:1.
batch_size == 2
\* VectorParams(size=1536, ...): the dimension both paths create with, and
\* the dimension of the vectors the embedding model returns.
VECTOR_SIZE == 1536
\* Another dimension setup_qdrant_collection(client, vector_size) may be given.
OTHER_SIZE == 768
VectorSizes == {VECTOR_SIZE, OTHER_SIZE}

Min(a, b) == IF a < b THEN a ELSE b

\* --------------------------------------------------------------- texts
SP == " "
NL == "\n"
\* separators=["\n\n", "\n", " ", ""]
separators == << <<NL, NL>>, <<NL>>, <<SP>>, <<>> >>

\* The documents and queries the model draws from.
DocEmpty == <<>>
DocShort == <<"a", "b">>
DocLong == <<"a", "a", "a", SP, "b", "b", "b", SP, "a", "a", "a">>
Contents == {DocEmpty, DocShort, DocLong}
Queries == {<<"a">>, <<"b", "b", "b">>}

\* str.strip(): leading and trailing whitespace removed.
IsSpace(ch) == ch \in {SP, NL}
RECURSIVE lstrip(_)
lstrip(t) == IF t # <<>> /\ IsSpace(Head(t)) THEN lstrip(Tail(t)) ELSE t
RECURSIVE rstrip(_)
rstrip(t) ==
    IF t # <<>> /\ IsSpace(t[Len(t)]) THEN rstrip(SubSeq(t, 1, Len(t) - 1)) ELSE t
strip(t) == rstrip(lstrip(t))

\* "".join(pieces)
RECURSIVE join(_)
join(pieces) == IF pieces = <<>> THEN <<>> ELSE Head(pieces) \o join(Tail(pieces))

\* The first index >= i at which sep occurs in text, 0 when it does not.
RECURSIVE find(_, _, _)
find(text, sep, i) ==
    IF i + Len(sep) - 1 > Len(text) THEN 0
    ELSE IF SubSeq(text, i, i + Len(sep) - 1) = sep THEN i
    ELSE find(text, sep, i + 1)

\* re.split(sep, text): the pieces between the occurrences of sep.
RECURSIVE re_split(_, _)
re_split(text, sep) ==
    LET j == find(text, sep, 1)
    IN  IF j = 0 THEN <<text>>
        ELSE <<SubSeq(text, 1, j - 1)>>
                 \o re_split(SubSeq(text, j + Len(sep), Len(text)), sep)

\* The splitter's split with keep_separator: every piece after the first
\* keeps its separator in front; the empty separator splits into characters;
\* empty pieces are dropped.
split_text_with_regex(text, sep) ==
    LET pieces == re_split(text, sep)
        kept == [i \in 1..Len(pieces) |->
                    IF i = 1 THEN pieces[1] ELSE sep \o pieces[i]]
    IN  IF sep = <<>> THEN [i \in 1..Len(text) |-> <<text[i]>>]
        ELSE SelectSeq(kept, LAMBDA s : s # <<>>)

\* _join_docs: the pieces joined and stripped, nothing when that is empty.
join_docs(current_doc) ==
    LET doc == strip(join(current_doc))
    IN  IF doc = <<>> THEN <<>> ELSE <<doc>>

\* The while loop of _merge_splits: pieces leave the front of the window
\* until at most chunk_overlap characters remain and the next piece fits.
RECURSIVE drop_overlap(_, _, _)
drop_overlap(current_doc, total, len_d) ==
    IF total > chunk_overlap \/ (total + len_d > chunk_size /\ total > 0)
    THEN drop_overlap(Tail(current_doc), total - Len(Head(current_doc)), len_d)
    ELSE [cur |-> current_doc, total |-> total]

\* _merge_splits with the empty join separator (keep_separator).
RECURSIVE merge_loop(_, _, _, _)
merge_loop(splits, docs, current_doc, total) ==
    IF splits = <<>> THEN docs \o join_docs(current_doc)
    ELSE LET d == Head(splits)
             flush == total + Len(d) > chunk_size /\ current_doc # <<>>
             docs1 == IF flush THEN docs \o join_docs(current_doc) ELSE docs
             st == IF flush THEN drop_overlap(current_doc, total, Len(d))
                   ELSE [cur |-> current_doc, total |-> total]
         IN  merge_loop(Tail(splits), docs1, Append(st.cur, d), st.total + Len(d))

merge_splits(splits) == merge_loop(splits, <<>>, <<>>, 0)

\* The separator _split_text picks: the first of seps that is empty or occurs
\* in text, with the separators left for the pieces that are still too long.
RECURSIVE pick_separator(_, _)
pick_separator(text, seps) ==
    IF Len(seps) = 1 \/ Head(seps) = <<>>
        THEN [sep |-> Head(seps), rest |-> <<>>]
    ELSE IF find(text, Head(seps), 1) # 0
        THEN [sep |-> Head(seps), rest |-> Tail(seps)]
    ELSE pick_separator(text, Tail(seps))

\* RecursiveCharacterTextSplitter._split_text
RECURSIVE split_text_rec(_, _)
RECURSIVE split_loop(_, _, _, _)
split_loop(splits, good, final, new_seps) ==
    LET flushed == IF good # <<>> THEN final \o merge_splits(good) ELSE final
    IN  IF splits = <<>> THEN flushed
        ELSE LET s == Head(splits)
             IN  IF Len(s) < chunk_size
                 THEN split_loop(Tail(splits), Append(good, s), final, new_seps)
                 ELSE split_loop(Tail(splits), <<>>,
                                 flushed \o (IF new_seps = <<>> THEN <<s>>
                                             ELSE split_text_rec(s, new_seps)),
                                 new_seps)

split_text_rec(text, seps) ==
    LET p == pick_separator(text, seps)
    IN  split_loop(split_text_with_regex(text, p.sep), <<>>, <<>>, p.rest)

\* text_splitter.split_text(content)
split_text(content) == split_text_rec(content, separators)

\* ----------------------------------------------------------- mappings
None == "None"
EmptyDict == [k \in {} |-> 0]
\* {**a, **b}: the keys of both, b's value where both have the key.
dict_merge(a, b) ==
    [k \in DOMAIN a \cup DOMAIN b |-> IF k \in DOMAIN b THEN b[k] ELSE a[k]]

\* The (content, metadata) pairs an add_knowledge request may carry.
AddContents ==
    { <<DocEmpty, [test |-> 1]>>,
      <<DocShort, [test |-> 1, chunk_index |-> 7]>>,
      <<DocLong, [test |-> 1]>> }

\* load_documents: (content, metadata) with the file's source, name and type.
Document(content, name) ==
    <<content, [source |-> name, filename |-> name, type |-> "markdown"]>>
\* The document lists the setup script may find in its directory.
DocumentLists ==
    { <<Document(DocEmpty, "e.md")>>,
      <<Document(DocShort, "s.md")>>,
      <<Document(DocLong, "l.md")>>,
      <<Document(DocLong, "l.md"), Document(DocShort, "s.md")>> }

\* ---------------------------------------------------------- embeddings
\* The embedding of a text: a vector of VECTOR_SIZE numbers, abstracted to
\* its dimension and one coordinate (the number of "a" in the text).
RECURSIVE count_a(_)
count_a(t) ==
    IF t = <<>> THEN 0 ELSE (IF Head(t) = "a" THEN 1 ELSE 0) + count_a(Tail(t))
embed_query(text) == [dim |-> VECTOR_SIZE, val |-> count_a(text)]
embed_documents(texts) == [i \in 1..Len(texts) |-> embed_query(texts[i])]
\* The similarity of two vectors: higher is more similar.
similarity(u, v) == IF u.val < v.val THEN u.val - v.val ELSE v.val - u.val

\* ------------------------------------------------------- the Qdrant store
Absent == [exists |-> FALSE, size |-> 0, points |-> {}]
\* client.get_collections().collections, as names
get_collections(st) == {c \in Names : st[c].exists}
\* client.create_collection: refused when the name is taken.
create_collection_ok(st, name) == ~st[name].exists
create_collection_noop(st, name, size) == st
create_collection(st, name, size) ==
    [st EXCEPT ![name] = [exists |-> TRUE, size |-> size, points |-> {}]]
\* client.delete_collection
delete_collection(st, name) == [st EXCEPT ![name] = Absent]
\* client.upsert: refused when the collection is absent or a vector has
\* another dimension than the collection; insert-or-replace by point id.
upsert_ok(st, name, points) ==
    /\ st[name].exists
    /\ \A p \in points : p.vector.dim = st[name].size
upsert(st, name, points) ==
    [st EXCEPT ![name].points =
        {q \in @ : \A p \in points : p.id # q.id} \cup points]
\* client.search: refused when the collection is absent or the query vector
\* has another dimension; the k best points, best first, ties by id.
search_ok(st, name, qv) == st[name].exists /\ qv.dim = st[name].size
Better(qv, p, q) ==
    \/ similarity(qv, p.vector) > similarity(qv, q.vector)
    \/ similarity(qv, p.vector) = similarity(qv, q.vector) /\ p.id <= q.id
RECURSIVE top_k(_, _, _)
top_k(points, qv, k) ==
    IF k = 0 \/ points = {} THEN <<>>
    ELSE LET best == CHOOSE p \in points : \A q \in points : Better(qv, p, q)
         IN  <<[point |-> best, score |-> similarity(qv, best.vector)]>>
                 \o top_k(points \ {best}, qv, k - 1)
qdrant_search(st, name, qv, k) == top_k(st[name].points, qv, k)
\* client.get_collection(name): refused when the collection is absent.
get_collection_ok(st, name) == st[name].exists
get_collection(st, name) ==
    [points_count |-> Cardinality(st[name].points),
     vectors_count |-> Cardinality(st[name].points),
     status |-> "green"]

\* ------------------------------------------------------------- state
VARIABLES
    store,            \* the Qdrant service: name -> [exists, size, points]
    qdrant_client,    \* server global: TRUE once the client is constructed
    embeddings,       \* server global: TRUE once OpenAIEmbeddings is constructed
    vectorstore,      \* server global: None, or the collection name it is bound to
    server_pc,        \* startup_event: "init", "create", "ready", "failed"
    collection_names, \* startup_event's local: the names it listed, {} before
    peer_pc,          \* startup_event in a second server process on the same
                      \* store: "off" (no such process), "init", "create",
                      \* "ready", "failed"
    content_default,  \* the installed langchain_community: whether a payload
                      \* without page_content becomes a Document of content ""
                      \* (TRUE) or is refused by Document's validation (FALSE)
    response,         \* the answer a handler gave, until the client has it
    setup_pc,         \* the setup script, run once: where main() stands
    documents,        \* main's documents
    chunks,           \* main's chunks
    total_indexed,    \* index_documents' total_indexed
    setup_call,       \* history: the call number of the running index_documents
    next_id,          \* the ids uuid4 has handed out are 1..next_id-1
    calls             \* history: the ingestion calls that reached the store, each
                      \* with its path, its chunk texts and its outcome

server_vars == <<qdrant_client, embeddings, vectorstore, server_pc,
                 collection_names>>
setup_vars == <<setup_pc, documents, chunks, total_indexed, setup_call>>
vars == <<store, server_vars, peer_pc, content_default, response, setup_vars,
          next_id, calls>>

\* The body of an answer that is an error, or of no answer yet.
NoBody == [status |-> "error"]
NoResponse ==
    [op |-> "none", status_code |-> 0, detail |-> <<>>, body |-> NoBody]

\* The store and the server process before startup_event.
InitState ==
    \* The store holds another client's collection, not yet the default one.
    /\ store = [c \in Names |->
                   IF c = COLLECTION_NAME THEN Absent
                   ELSE [exists |-> TRUE, size |-> VECTOR_SIZE, points |-> {}]]
    /\ qdrant_client = FALSE
    /\ embeddings = FALSE
    /\ vectorstore = None
    /\ server_pc = "init"
    /\ collection_names = {}
    /\ content_default \in BOOLEAN
    /\ response = NoResponse
    /\ next_id = 1
    /\ calls = <<>>

\* The setup script before main().
InitSetup ==
    /\ setup_pc = "idle"
    /\ documents = <<>>
    /\ chunks = <<>>
    /\ total_indexed = 0
    /\ setup_call = 0

\* One server process and the setup script.
Init == InitState /\ InitSetup /\ peer_pc = "off"

\* --------------------------------------------------- server: startup_event
\* startup_event creating the collection whatever it listed.
startup_always_create(names) == TRUE

\* `if COLLECTION_NAME not in collection_names`
startup_must_create(names) == COLLECTION_NAME \notin names

\* The vectorstore constructed whether or not the embeddings were.
startup_vectorstore_always(emb) == COLLECTION_NAME

\* `if embeddings: vectorstore = Qdrant(..., collection_name=COLLECTION_NAME, ...)`
startup_vectorstore(emb) == IF emb THEN COLLECTION_NAME ELSE None

\* Lines 88-102, and lines 111-120 when the collection is listed: the client
\* and (with OPENAI_API_KEY set: key) the embeddings are constructed, the
\* collections listed.
StartupList(ok, key) ==
    /\ UNCHANGED <<content_default, peer_pc>>
    /\ server_pc = "init"
    /\ qdrant_client' = TRUE
    /\ embeddings' = key
    /\ IF ~ok
       THEN /\ server_pc' = "failed"
            /\ UNCHANGED <<vectorstore, collection_names>>
       ELSE /\ collection_names' = get_collections(store)
            /\ IF startup_must_create(get_collections(store))
               THEN server_pc' = "create" /\ UNCHANGED vectorstore
               ELSE /\ server_pc' = "ready"
                    /\ vectorstore' = startup_vectorstore(key)
    /\ UNCHANGED <<store, response, setup_vars, next_id, calls>>

\* Lines 105-120: create_collection(size=1536), then the vectorstore.
StartupCreate(ok) ==
    /\ UNCHANGED <<content_default, peer_pc>>
    /\ server_pc = "create"
    /\ IF ok /\ create_collection_ok(store, COLLECTION_NAME)
       THEN /\ store' = create_collection(store, COLLECTION_NAME, VECTOR_SIZE)
            /\ server_pc' = "ready"
            /\ vectorstore' = startup_vectorstore(embeddings)
       ELSE /\ server_pc' = "failed"
            /\ UNCHANGED <<store, vectorstore>>
    /\ UNCHANGED <<qdrant_client, embeddings, collection_names, response,
                   setup_vars, next_id, calls>>

\* startup_event in the second server process, lines 100-109: the same
\* list-collections, then create-if-not-listed, against the same store.
PeerList(ok) ==
    /\ peer_pc = "init"
    /\ peer_pc' = IF ~ok THEN "failed"
                  ELSE IF startup_must_create(get_collections(store)) THEN "create"
                  ELSE "ready"
    /\ UNCHANGED <<store, server_vars, content_default, response, setup_vars,
                   next_id, calls>>

PeerCreate(ok) ==
    /\ peer_pc = "create"
    /\ IF ok /\ create_collection_ok(store, COLLECTION_NAME)
       THEN /\ store' = create_collection(store, COLLECTION_NAME, VECTOR_SIZE)
            /\ peer_pc' = "ready"
       ELSE /\ peer_pc' = "failed"
            /\ UNCHANGED store
    /\ UNCHANGED <<server_vars, content_default, response, setup_vars, next_id,
                   calls>>

\* -------------------------------------------------- setup_rag.py: chunking
\* chunk_metadata numbering the chunks from 1.
chunk_metadata_one_based(metadata, i, text_chunks) ==
    dict_merge(metadata, [chunk_index |-> i + 1, total_chunks |-> Len(text_chunks)])

\* The chunk_metadata literal: {**metadata, "chunk_index": i, "total_chunks": len(text_chunks)}
chunk_metadata(metadata, i, text_chunks) ==
    dict_merge(metadata, [chunk_index |-> i, total_chunks |-> Len(text_chunks)])

\* The inner loop of chunk_documents over one document's text_chunks.
document_chunks(content, metadata) ==
    LET text_chunks == split_text(content)
    IN  [j \in 1..Len(text_chunks) |->
            <<text_chunks[j], chunk_metadata(metadata, j - 1, text_chunks)>>]

RECURSIVE chunk_documents(_)
chunk_documents(docs) ==
    IF docs = <<>> THEN <<>>
    ELSE document_chunks(Head(docs)[1], Head(docs)[2]) \o chunk_documents(Tail(docs))

\* ------------------------------------------ setup_rag.py: the script's steps
\* A slice that takes one element more.
Slice_inclusive(s, i, j) == SubSeq(s, i + 1, IF j + 1 <= Len(s) THEN j + 1 ELSE Len(s))

\* s[i:j] of Python, for a sequence s.
Slice(s, i, j) == SubSeq(s, i + 1, Min(j, Len(s)))

SetupFailed(pc) == pc \in {"failed", "index_failed"}

\* main() up to chunk_documents: the documents are loaded and chunked.
SetupStart(docs) ==
    /\ UNCHANGED <<content_default, peer_pc>>
    /\ setup_pc = "idle"
    /\ documents' = docs
    /\ chunks' = chunk_documents(docs)
    /\ setup_pc' = "list"
    /\ total_indexed' = 0
    /\ UNCHANGED <<store, server_vars, response, setup_call, next_id, calls>>

\* setup_qdrant_collection, lines 83-86: the collections are listed.
SetupList(ok) ==
    /\ UNCHANGED <<content_default, peer_pc>>
    /\ setup_pc = "list"
    /\ setup_pc' = IF ~ok THEN "failed"
                   ELSE IF COLLECTION_NAME \in get_collections(store) THEN "delete"
                   ELSE "create"
    /\ UNCHANGED <<store, server_vars, response, documents, chunks,
                   total_indexed, setup_call, next_id, calls>>

\* setup_qdrant_collection, lines 87-88: the listed collection is deleted.
SetupDelete(ok) ==
    /\ UNCHANGED <<content_default, peer_pc>>
    /\ setup_pc = "delete"
    /\ IF ok
       THEN /\ store' = delete_collection(store, COLLECTION_NAME)
            /\ calls' = [c \in DOMAIN calls |-> [calls[c] EXCEPT !.status = "deleted"]]
            /\ setup_pc' = "create"
       ELSE /\ setup_pc' = "failed"
            /\ UNCHANGED <<store, calls>>
    /\ UNCHANGED <<server_vars, response, documents, chunks,
                   total_indexed, setup_call, next_id>>

\* A call of an ingestion path, as the history keeps it: status is "running",
\* "ok", "failed", or "deleted" once its collection was deleted.
Call(path, texts, status) == [path |-> path, texts |-> texts, status |-> status]

\* setup_qdrant_collection, lines 91-94, and the entry of index_documents
\* (lines 104-112): the collection is created with vector_size; with no chunk
\* to index the loop of index_documents is over at once.
SetupCreate(vector_size, ok) ==
    /\ UNCHANGED <<content_default, peer_pc>>
    /\ setup_pc = "create"
    /\ IF ok /\ create_collection_ok(store, COLLECTION_NAME)
       THEN /\ store' = create_collection(store, COLLECTION_NAME, vector_size)
            /\ setup_pc' = IF chunks = <<>> THEN "done" ELSE "index"
            /\ calls' = Append(calls,
                   Call("index_documents", [j \in 1..Len(chunks) |-> chunks[j][1]],
                        IF chunks = <<>> THEN "ok" ELSE "running"))
            /\ setup_call' = Len(calls) + 1
       ELSE /\ setup_pc' = "failed"
            /\ UNCHANGED <<store, calls, setup_call>>
    /\ UNCHANGED <<server_vars, response, documents, chunks,
                   total_indexed, next_id>>

\* The points of one batch of index_documents, lines 122-132: a fresh id, the
\* embedding, and the payload {"text": text, **metadata}.
index_payload(text, metadata) == dict_merge([text |-> text], metadata)
index_points(batch_texts, batch_embeddings, batch_metadata, first_id, call) ==
    [j \in 1..Len(batch_texts) |->
        [id |-> first_id + j - 1,
         vector |-> batch_embeddings[j],
         payload |-> index_payload(batch_texts[j], batch_metadata[j]),
         call |-> call]]

Range(s) == {s[j] : j \in 1..Len(s)}

\* One turn of the loop of index_documents, lines 114-142: a batch is embedded
\* and upserted into COLLECTION_NAME; an exception of either call leaves the
\* function (lines 146-148) and main exits.
IndexBatch(fault) ==
    /\ UNCHANGED <<content_default, peer_pc>>
    /\ setup_pc = "index"
    /\ total_indexed < Len(chunks)
    /\ LET texts == [j \in 1..Len(chunks) |-> chunks[j][1]]
           metadatas == [j \in 1..Len(chunks) |-> chunks[j][2]]
           i == total_indexed
           batch_texts == Slice(texts, i, i + batch_size)
           batch_metadata == Slice(metadatas, i, i + batch_size)
           batch_embeddings == embed_documents(batch_texts)
           points == index_points(batch_texts, batch_embeddings, batch_metadata,
                                  next_id, setup_call)
       IN  IF fault = "none" /\ upsert_ok(store, COLLECTION_NAME, Range(points))
           THEN /\ store' = upsert(store, COLLECTION_NAME, Range(points))
                /\ next_id' = next_id + Len(points)
                /\ total_indexed' = total_indexed + Len(points)
                /\ IF total_indexed + Len(points) >= Len(chunks)
                   THEN /\ setup_pc' = "done"
                        /\ calls' = [calls EXCEPT ![setup_call].status = "ok"]
                   ELSE UNCHANGED <<setup_pc, calls>>
           ELSE /\ setup_pc' = "index_failed"
                /\ calls' = [calls EXCEPT ![setup_call].status = "failed"]
                /\ UNCHANGED <<store, total_indexed, next_id>>
    /\ UNCHANGED <<server_vars, response, documents, chunks,
                   setup_call>>

Faults == {"none", "embed", "store"}

\* ------------------------------------------------ server: the handlers
\* What a try block ends with: a value returned or an exception raised.
Return(v) == [raised |-> FALSE, exc |-> None, value |-> v]
Raise(e) == [raised |-> TRUE, exc |-> e, value |-> None]
HTTPException(status_code, detail) ==
    [type |-> "HTTPException", status_code |-> status_code, detail |-> detail]
\* An exception of the store, the embedding provider or a library.
Error(kind) == [type |-> kind, status_code |-> 0, detail |-> <<kind>>]
\* str(e)
str(e) ==
    IF e.type = "HTTPException" THEN <<ToString(e.status_code), ": ">> \o e.detail
    ELSE e.detail

\* What the client receives: the returned body with 200, or the status and
\* detail of the HTTPException that left the handler.
Answer(op, outcome) ==
    IF outcome.raised
    THEN [op |-> op, status_code |-> outcome.exc.status_code,
          detail |-> outcome.exc.detail, body |-> NoBody]
    ELSE [op |-> op, status_code |-> 200, detail |-> <<>>, body |-> outcome.value]

\* `except Exception as e: raise HTTPException(status_code=code, detail=f"{prefix}{e}")`
except_exception(tried, code, prefix) ==
    IF tried.raised
    THEN Raise(HTTPException(code, <<prefix>> \o str(tried.exc)))
    ELSE tried

mcp_validation == [accepted |-> TRUE, gates |-> "A0-A6"]

vectorstore_not_initialized == HTTPException(503, <<"Vectorstore not initialized">>)
client_not_initialized == HTTPException(503, <<"Qdrant client not initialized">>)

\* langchain's Qdrant turns a scored point into a Document: page_content and
\* metadata are read from the payload keys of those names. A payload without
\* page_content gives the content "" and a payload without metadata gives {}
\* where the library defaults them; where it does not, Document's validation
\* refuses the missing page_content.
has_page_content(p) == "page_content" \in DOMAIN p.payload
document_from_scored_point(p) ==
    [page_content |-> IF has_page_content(p) THEN p.payload.page_content ELSE <<>>,
     metadata |-> IF "metadata" \in DOMAIN p.payload THEN p.payload.metadata
                  ELSE EmptyDict]

\* vectorstore.similarity_search_with_score(query, k): the query is embedded,
\* the collection the vectorstore is bound to is searched, the hits become
\* (Document, score) pairs.
similarity_search_with_score(query, k, fault) ==
    IF fault = "embed" THEN Raise(Error("ProviderError"))
    ELSE IF fault = "store" \/ ~search_ok(store, vectorstore, embed_query(query))
        THEN Raise(Error("StoreError"))
    ELSE LET hits == qdrant_search(store, vectorstore, embed_query(query), k)
         IN  IF /\ ~content_default
                /\ \E i \in 1..Len(hits) : ~has_page_content(hits[i].point)
             THEN Raise(Error("ValidationError"))
             ELSE Return([i \in 1..Len(hits) |->
                            [doc |-> document_from_scored_point(hits[i].point),
                             score |-> hits[i].score]])

\* Lines 167-175
formatted_results(results) ==
    [i \in 1..Len(results) |->
        [content |-> results[i].doc.page_content,
         metadata |-> results[i].doc.metadata,
         score |-> results[i].score]]

\* search_response counting the results asked for, not the results found.
search_response_count_k(request, formatted) ==
    [status |-> "success", query |-> request.query, results |-> formatted,
     count |-> request.k, mcp_validation |-> mcp_validation]

\* Lines 177-183
search_response(request, formatted) ==
    [status |-> "success", query |-> request.query, results |-> formatted,
     count |-> Len(formatted), mcp_validation |-> mcp_validation]

\* search_knowledge, lines 152-190
search_knowledge(request, fault) ==
    LET tried ==
            IF vectorstore = None THEN Raise(vectorstore_not_initialized)
            ELSE LET results == similarity_search_with_score(request.query,
                                                             request.k, fault)
                 IN  IF results.raised THEN results
                     ELSE Return(search_response(request,
                                                 formatted_results(results.value)))
    IN  except_exception(tried, 500, "Search failed: ")

\* Lines 265-270: f"[Context {i}]\n{doc.page_content}" for i = 1, 2, ...,
\* joined by "\n\n".
context_part_zero_based(i, doc) ==
    <<"[Context ", ToString(i - 1), "]", NL>> \o doc.page_content
context_part(i, doc) == <<"[Context ", ToString(i), "]", NL>> \o doc.page_content
RECURSIVE join_context(_)
join_context(context_parts) ==
    IF context_parts = <<>> THEN <<>>
    ELSE IF Len(context_parts) = 1 THEN Head(context_parts)
    ELSE Head(context_parts) \o <<NL, NL>> \o join_context(Tail(context_parts))
build_context(results) ==
    join_context([i \in 1..Len(results) |-> context_part(i, results[i])])

\* Lines 272-280
build_prompt(context, query) ==
    <<"Based on the following context, answer the query.", NL, NL, "Context:", NL>>
        \o context \o <<NL, NL, "Query: ">> \o query \o <<NL, NL, "Answer:">>

\* Lines 282-289
query_response(request, results) ==
    [status |-> "success", query |-> request.query,
     context |-> build_context(results),
     prompt |-> build_prompt(build_context(results), request.query),
     context_documents |-> Len(results), mcp_validation |-> mcp_validation]

\* query_with_context, lines 250-296; similarity_search is
\* similarity_search_with_score without the scores.
query_with_context(request, fault) ==
    LET tried ==
            IF vectorstore = None THEN Raise(vectorstore_not_initialized)
            ELSE LET scored == similarity_search_with_score(request.query,
                                                            request.context_k, fault)
                 IN  IF scored.raised THEN scored
                     ELSE Return(query_response(request,
                              [i \in 1..Len(scored.value) |-> scored.value[i].doc]))
    IN  except_exception(tried, 500, "Query with context failed: ")

\* datetime.utcnow().isoformat(): the time of the request, abstracted to the
\* number of ingestion calls made before it.
utcnow == Len(calls)

\* Lines 217-223: one mapping per chunk, the request's metadata under the
\* three computed keys.
add_metadatas(metadata, text_chunks, now) ==
    [j \in 1..Len(text_chunks) |->
        dict_merge(metadata, [chunk_index |-> j - 1,
                              total_chunks |-> Len(text_chunks),
                              added_at |-> now])]

\* The points vectorstore.add_texts builds: a fresh id, the embedding, and the
\* payload {"page_content": text, "metadata": metadata}.
add_texts_points(texts, metadatas, first_id, call) ==
    [j \in 1..Len(texts) |->
        [id |-> first_id + j - 1,
         vector |-> embed_documents(texts)[j],
         payload |-> [page_content |-> texts[j], metadata |-> metadatas[j]],
         call |-> call]]

\* Whether vectorstore.add_texts(texts) raises: with no text it calls neither
\* the embedding provider nor the store.
add_texts_raises(texts, points, fault) ==
    /\ texts # <<>>
    /\ \/ fault # "none"
       \/ ~upsert_ok(store, vectorstore, Range(points))

\* Lines 228-233
add_response(text_chunks, ids) ==
    [status |-> "success", chunks_added |-> Len(text_chunks), ids |-> ids,
     mcp_validation |-> mcp_validation]

\* add_knowledge, lines 200-240: answer, store and ids afterwards.
add_knowledge(request, fault) ==
    LET text_chunks == split_text(request.content)
        metadatas == add_metadatas(request.metadata, text_chunks, utcnow)
        points == add_texts_points(text_chunks, metadatas, next_id, Len(calls) + 1)
        tried ==
            IF vectorstore = None THEN Raise(vectorstore_not_initialized)
            ELSE IF add_texts_raises(text_chunks, points, fault)
                THEN Raise(Error(IF fault = "embed" THEN "ProviderError"
                                 ELSE "StoreError"))
            ELSE Return(add_response(text_chunks,
                                     [j \in 1..Len(points) |-> points[j].id]))
    IN  [outcome |-> except_exception(tried, 500, "Add knowledge failed: "),
         store |-> IF tried.raised \/ text_chunks = <<>> THEN store
                   ELSE upsert(store, vectorstore, Range(points)),
         next_id |-> IF tried.raised THEN next_id ELSE next_id + Len(points),
         texts |-> text_chunks,
         ok |-> ~tried.raised]

\* update_knowledge_index, lines 306-337
update_knowledge_index(request, fault) ==
    LET tried ==
            IF ~qdrant_client THEN Raise(client_not_initialized)
            ELSE IF fault = "store" \/ ~get_collection_ok(store, request.collection)
                THEN Raise(Error("StoreError"))
            ELSE LET collection_info == get_collection(store, request.collection)
                 IN  Return([status |-> "success", collection |-> request.collection,
                             vectors_count |-> collection_info.vectors_count,
                             points_count |-> collection_info.points_count,
                             mcp_validation |-> mcp_validation])
    IN  except_exception(tried, 500, "Update index failed: ")

\* list_knowledge_collections, lines 347-380
list_knowledge_collections(fault) ==
    LET tried ==
            IF ~qdrant_client THEN Raise(client_not_initialized)
            ELSE IF fault = "store" THEN Raise(Error("StoreError"))
            ELSE LET collections_info ==
                         {[name |-> c,
                           vectors_count |-> get_collection(store, c).vectors_count,
                           points_count |-> get_collection(store, c).points_count,
                           status |-> get_collection(store, c).status]
                             : c \in get_collections(store)}
                 IN  Return([status |-> "success", collections |-> collections_info,
                             count |-> Cardinality(collections_info),
                             mcp_validation |-> mcp_validation])
    IN  except_exception(tried, 500, "List collections failed: ")

\* get_collection_stats_resource, lines 398-426: every exception of the try
\* block is answered 404 "Collection not found: {collection}".
get_collection_stats_resource(collection, fault) ==
    LET tried ==
            IF ~qdrant_client THEN Raise(client_not_initialized)
            ELSE IF fault = "store" \/ ~get_collection_ok(store, collection)
                THEN Raise(Error("StoreError"))
            ELSE LET info == get_collection(store, collection)
                 IN  Return([status |-> "success", collection |-> collection,
                             stats |-> [vectors_count |-> info.vectors_count,
                                        points_count |-> info.points_count,
                                        status |-> info.status],
                             mcp_validation |-> mcp_validation])
    IN  IF tried.raised
        THEN Raise(HTTPException(404, <<"Collection not found: ", collection>>))
        ELSE tried

\* health_check, lines 130-142
health_check ==
    LET healthy(handle) == IF handle THEN "healthy" ELSE "unavailable"
        services == [qdrant |-> healthy(qdrant_client),
                     embeddings |-> healthy(embeddings),
                     vectorstore |-> healthy(vectorstore # None)]
    IN  Return([status |-> IF \A s \in DOMAIN services : services[s] = "healthy"
                           THEN "healthy" ELSE "degraded",
                services |-> services, mcp_compliance |-> "A0-A6"])

\* ------------------------------------------------- server: the requests
\* The k and context_k a request may carry (within 1..20 and 1..10).
Ks == {2, 3}

\* A handler runs once startup_event has returned, or on an application whose
\* startup event has not run (the globals of lines 47-49 are still None, the
\* case the handlers guard against). startup_event has no await, so no request
\* is served while it runs, and it re-raises (line 123), so none is served
\* after it failed. The client is synchronous (httpx.Client): it sends a
\* request once it has received the answer to the one before.
Serving == server_pc \in {"init", "ready"} /\ response = NoResponse

SearchRequest(query, k, collection) ==
    [query |-> query, k |-> k, collection |-> collection]
AddKnowledgeRequest(content, metadata, collection) ==
    [content |-> content, metadata |-> metadata, collection |-> collection]
QueryWithContextRequest(query, context_k, collection) ==
    [query |-> query, context_k |-> context_k, collection |-> collection]
UpdateIndexRequest(collection, force_rebuild) ==
    [collection |-> collection, force_rebuild |-> force_rebuild]

ReadOnly ==
    UNCHANGED <<store, server_vars, peer_pc, content_default, setup_vars, next_id,
                calls>>

SearchKnowledge(query, k, collection, fault) ==
    /\ Serving
    /\ response' = Answer("search_knowledge",
                          search_knowledge(SearchRequest(query, k, collection), fault))
    /\ ReadOnly

QueryWithContext(query, context_k, collection, fault) ==
    /\ Serving
    /\ response' = Answer("query_with_context",
                          query_with_context(
                              QueryWithContextRequest(query, context_k, collection),
                              fault))
    /\ ReadOnly

AddCalls == Cardinality({c \in DOMAIN calls : calls[c].path = "add_knowledge"})

AddKnowledge(content, metadata, collection, fault) ==
    /\ UNCHANGED <<content_default, peer_pc>>
    /\ Serving
    /\ AddCalls < MaxAdds
    /\ LET request == AddKnowledgeRequest(content, metadata, collection)
           done == add_knowledge(request, fault)
       IN  /\ response' = Answer("add_knowledge", done.outcome)
           /\ store' = done.store
           /\ next_id' = done.next_id
           /\ calls' = IF done.ok
                       THEN Append(calls, Call("add_knowledge", done.texts, "ok"))
                       ELSE calls
    /\ UNCHANGED <<server_vars, setup_vars>>

UpdateKnowledgeIndex(collection, force_rebuild, fault) ==
    /\ Serving
    /\ response' = Answer("update_knowledge_index",
                          update_knowledge_index(
                              UpdateIndexRequest(collection, force_rebuild), fault))
    /\ ReadOnly

ListKnowledgeCollections(fault) ==
    /\ Serving
    /\ response' = Answer("list_knowledge_collections",
                          list_knowledge_collections(fault))
    /\ ReadOnly

GetCollectionStatsResource(collection, fault) ==
    /\ Serving
    /\ response' = Answer("get_collection_stats_resource",
                          get_collection_stats_resource(collection, fault))
    /\ ReadOnly

HealthCheck ==
    /\ Serving
    /\ response' = Answer("health_check", health_check)
    /\ ReadOnly

\* The client receives the answer: `response = client.post(...)`.
ClientReceives ==
    /\ response # NoResponse
    /\ response' = NoResponse
    /\ ReadOnly

StoreFaults == {"none", "store"}

Next ==
    \/ \E ok \in BOOLEAN, key \in BOOLEAN : StartupList(ok, key)
    \/ \E ok \in BOOLEAN : StartupCreate(ok)
    \/ \E docs \in DocumentLists : SetupStart(docs)
    \/ \E ok \in BOOLEAN : SetupList(ok)
    \/ \E ok \in BOOLEAN : SetupDelete(ok)
    \/ \E vector_size \in VectorSizes, ok \in BOOLEAN : SetupCreate(vector_size, ok)
    \/ \E fault \in Faults : IndexBatch(fault)
    \/ \E query \in Queries, k \in Ks, collection \in Names, fault \in Faults :
           SearchKnowledge(query, k, collection, fault)
    \/ \E query \in Queries, k \in Ks, collection \in Names, fault \in Faults :
           QueryWithContext(query, k, collection, fault)
    \/ \E doc \in AddContents, collection \in Names, fault \in Faults :
           AddKnowledge(doc[1], doc[2], collection, fault)
    \/ \E collection \in Names, force_rebuild \in BOOLEAN, fault \in StoreFaults :
           UpdateKnowledgeIndex(collection, force_rebuild, fault)
    \/ \E fault \in StoreFaults : ListKnowledgeCollections(fault)
    \/ \E collection \in Names, fault \in StoreFaults :
           GetCollectionStatsResource(collection, fault)
    \/ HealthCheck
    \/ ClientReceives

Spec == Init /\ [][Next]_vars

\* Two server processes start against the same store, which answers every
\* call; the first one then serves the requests that observe the collection.
InitStartup == InitState /\ InitSetup /\ peer_pc = "init"

NextStartup ==
    \/ \E key \in BOOLEAN : StartupList(TRUE, key)
    \/ StartupCreate(TRUE)
    \/ PeerList(TRUE)
    \/ PeerCreate(TRUE)
    \/ \E collection \in Names :
           UpdateKnowledgeIndex(collection, FALSE, "none")
    \/ ListKnowledgeCollections("none")
    \/ \E collection \in Names : GetCollectionStatsResource(collection, "none")
    \/ HealthCheck
    \/ ClientReceives

SpecStartup == InitStartup /\ [][NextStartup]_vars

\* The chunk lists a caller of index_documents may pass: any (text, metadata)
\* pairs, a metadata with a key "text" among them.
IndexChunkLists ==
    { <<>>,
      << <<DocShort, [source |-> "s.md"]>> >>,
      << <<DocShort, [source |-> "s.md", text |-> <<"b">>]>> >>,
      << <<<<"a">>, [source |-> "t.md", chunk_index |-> 0]>>,
         <<<<"b">>, [source |-> "t.md", chunk_index |-> 1]>>,
         <<<<"a", "b">>, [source |-> "t.md", chunk_index |-> 2, text |-> <<"a">>]>> >> }

\* A caller other than main() runs setup_qdrant_collection on a store without
\* the collection and then index_documents on its own chunks; the store and
\* the embedding provider may fail during indexing. The server starts and
\* answers searches of what is indexed.
InitIndex ==
    /\ InitState
    /\ peer_pc = "off"
    /\ setup_pc = "create"
    /\ documents = <<>>
    /\ chunks \in IndexChunkLists
    /\ total_indexed = 0
    /\ setup_call = 0

NextIndex ==
    \/ SetupCreate(VECTOR_SIZE, TRUE)
    \/ \E fault \in Faults : IndexBatch(fault)
    \/ \E key \in BOOLEAN : StartupList(TRUE, key)
    \/ StartupCreate(TRUE)
    \/ \E query \in Queries, k \in Ks :
           SearchKnowledge(query, k, COLLECTION_NAME, "none")
    \/ \E query \in Queries, k \in Ks :
           QueryWithContext(query, k, COLLECTION_NAME, "none")
    \/ ClientReceives

SpecIndex == InitIndex /\ [][NextIndex]_vars

\* ---------------------------------------------------------------- claims
Default == store[COLLECTION_NAME]
PointsOf(c) == {p \in UNION {store[n].points : n \in Names} : p.call = c}

\* C1: ingestion is all-or-nothing: no point of an ingestion call that failed
\* (in chunking, in an embedding batch or in an upsert, of either path) is
\* stored in any collection.
C1_AllOrNothing ==
    \A c \in DOMAIN calls : calls[c].status = "failed" => PointsOf(c) = {}

\* The chunks of the documents before the d-th, counted with the splitter.
RECURSIVE ChunksBefore(_)
ChunksBefore(d) ==
    IF d = 1 THEN 0 ELSE ChunksBefore(d - 1) + Len(split_text(documents[d - 1][1]))

\* Path setup_rag: in main's chunks, the chunks of each document follow those
\* of the documents before it, numbered from 0 in the splitter's order, each
\* with the document's own chunk count.
SetupNumbering ==
    /\ Len(chunks) = ChunksBefore(Len(documents) + 1)
    /\ \A d \in 1..Len(documents) :
          LET text_chunks == split_text(documents[d][1])
          IN  \A j \in 1..Len(text_chunks) :
                 LET chunk == chunks[ChunksBefore(d) + j]
                 IN  /\ chunk[1] = text_chunks[j]
                     /\ chunk[2].chunk_index = j - 1
                     /\ chunk[2].total_chunks = Len(text_chunks)

\* Path add_knowledge: the points of a successful call are its n chunks, in
\* id order the chunks in order, numbered 0..n-1, each with total_chunks n.
AddNumbering ==
    \A c \in DOMAIN calls :
        (calls[c].path = "add_knowledge" /\ calls[c].status = "ok") =>
            LET n == Len(calls[c].texts)
            IN  /\ Cardinality(PointsOf(c)) = n
                /\ {p.payload.metadata.chunk_index : p \in PointsOf(c)} = 0..(n - 1)
                /\ \A p \in PointsOf(c) :
                      /\ p.payload.metadata.total_chunks = n
                      /\ p.payload.page_content
                             = calls[c].texts[p.payload.metadata.chunk_index + 1]
                      /\ \A q \in PointsOf(c) :
                             p.id < q.id => p.payload.metadata.chunk_index
                                                < q.payload.metadata.chunk_index

\* C2: the chunks of one ingested document carry chunk_index 0, 1, ..., n-1 in
\* chunk order and total_chunks n; chunk_documents restarts the numbering for
\* every document and uses that document's own chunk count.
C2_ChunkNumbering == SetupNumbering /\ AddNumbering

\* C2's case: two documents were chunked in one call, the second one's first
\* chunk numbered 0 again, and an add_knowledge call stored three chunks.
C2_Witness ==
    /\ Len(documents) = 2
    /\ Len(chunks) = 4
    /\ chunks[4][2].chunk_index = 0
    /\ chunks[3][2].chunk_index = 2
    /\ \E c \in DOMAIN calls :
          /\ calls[c].path = "add_knowledge"
          /\ calls[c].status = "ok"
          /\ Len(calls[c].texts) = 3

\* A step of the server's or of the setup script's ensure of the collection.
StartupStep ==
    \/ \E ok \in BOOLEAN, key \in BOOLEAN : StartupList(ok, key)
    \/ \E ok \in BOOLEAN : StartupCreate(ok)
SetupCollectionStep ==
    \/ \E ok \in BOOLEAN : SetupList(ok)
    \/ \E ok \in BOOLEAN : SetupDelete(ok)
    \/ \E vector_size \in VectorSizes, ok \in BOOLEAN : SetupCreate(vector_size, ok)
Matching == Default.exists /\ Default.size = VECTOR_SIZE

\* C3 as stated: no ensure step (of startup_event or of
\* setup_qdrant_collection) on an existing collection of the same dimension
\* changes its points or deletes it.
C3_EnsureKeepsCollection ==
    [][(StartupStep \/ SetupCollectionStep) /\ Matching
           => store'[COLLECTION_NAME] = store[COLLECTION_NAME]]_vars

\* C3 amended: startup_event on an existing collection leaves the store as it
\* is, and is ready without a create when it finds the collection listed;
\* setup_qdrant_collection deletes the collection it finds listed and creates
\* it again without points.
C3_StartupKeepsCollection ==
    [][/\ \A ok \in BOOLEAN, key \in BOOLEAN :
             (StartupList(ok, key) /\ Default.exists) =>
                 /\ store' = store
                 /\ ok => server_pc' = "ready"
       /\ \A ok \in BOOLEAN :
             (StartupCreate(ok) /\ Default.exists) => store' = store
       /\ SetupDelete(TRUE) => ~store'[COLLECTION_NAME].exists
       /\ \A vector_size \in VectorSizes :
             (SetupCreate(vector_size, TRUE) /\ setup_pc' # "failed") =>
                 store'[COLLECTION_NAME].points = {}]_vars

\* C3's case: startup_event found the collection listed and the server is
\* ready on it; the collection holds points.
C3_Witness ==
    /\ server_pc = "ready"
    /\ COLLECTION_NAME \in collection_names
    /\ Default.points # {}

\* C4: startup_event never completes on a default collection whose dimension
\* is not the embedding dimension (it fails with a schema mismatch instead).
C4_MismatchRefused ==
    [][(server_pc # "ready" /\ server_pc' = "ready")
           => store'[COLLECTION_NAME].size = VECTOR_SIZE]_vars

\* C5: the collection named in the request is the one operated on: an
\* add_knowledge naming c changes no other collection and stores its chunks
\* in c; a search_knowledge or query_with_context naming c answers only with
\* texts of points stored in c.
C5_RequestCollectionUsed ==
    [][/\ \A doc \in AddContents, c \in Names, fault \in Faults :
             AddKnowledge(doc[1], doc[2], c, fault) =>
                 /\ \A o \in Names \ {c} : store'[o] = store[o]
                 /\ response'.status_code = 200 =>
                        Cardinality(store'[c].points)
                            = Cardinality(store[c].points) + response'.body.chunks_added
       /\ \A query \in Queries, k \in Ks, c \in Names, fault \in Faults :
             (SearchKnowledge(query, k, c, fault) /\ response'.status_code = 200) =>
                 \A i \in 1..Len(response'.body.results) :
                     \E p \in store[c].points :
                         /\ has_page_content(p)
                         /\ p.payload.page_content = response'.body.results[i].content
       /\ \A query \in Queries, k \in Ks, c \in Names, fault \in Faults :
             (QueryWithContext(query, k, c, fault) /\ response'.status_code = 200) =>
                 response'.body.context_documents <= Cardinality(store[c].points)]_vars

\* Whether a search of the default collection meets no fault: the collection
\* exists with the embedding dimension and every point becomes a Document.
SearchMeetsNoFault ==
    /\ vectorstore # None
    /\ Matching
    /\ content_default \/ \A p \in Default.points : has_page_content(p)

\* C6: a search_knowledge with k that succeeds on the collection searched,
\* holding p points, returns min(k, p) results in non-increasing score order
\* and count is their number; k > p raises no error (a search that meets no
\* fault succeeds whatever k).
C6_SearchReturnsMinKP ==
    [][\A query \in Queries, k \in Ks, c \in Names, fault \in Faults :
           SearchKnowledge(query, k, c, fault) =>
               /\ response'.status_code = 200 =>
                     LET results == response'.body.results
                     IN  /\ Len(results) = Min(k, Cardinality(Default.points))
                         /\ response'.body.count = Len(results)
                         /\ \A i \in 1..Len(results), j \in 1..Len(results) :
                                i < j => results[i].score >= results[j].score
               /\ (fault = "none" /\ SearchMeetsNoFault) =>
                     response'.status_code = 200]_vars

\* C6's case: the collection searched holds one point and a search, whose k
\* is at least 2 (k > p), is answered with that one result.
C6_Witness ==
    /\ response.op = "search_knowledge"
    /\ response.status_code = 200
    /\ response.body.count = 1
    /\ Cardinality(Default.points) = 1

\* The texts a query_with_context retrieves: those of the Documents of the
\* context_k best points of the collection searched, best first.
Retrieved(query, context_k) ==
    LET hits == qdrant_search(store, COLLECTION_NAME, embed_query(query), context_k)
    IN  [i \in 1..Len(hits) |-> document_from_scored_point(hits[i].point).page_content]

\* Where the i-th entry of a context starts: after the entries before it, each
\* of four label tokens, its text and the two line breaks of a blank line.
RECURSIVE EntryStart(_, _)
EntryStart(texts, i) ==
    IF i = 1 THEN 1 ELSE EntryStart(texts, i - 1) + 4 + Len(texts[i - 1]) + 2

\* The context holds, for i = 1..m in order, "[Context i]", a line break and
\* the i-th text, one blank line between two entries, and nothing else.
ContextOf(context, texts) ==
    LET m == Len(texts)
    IN  /\ Len(context) = IF m = 0 THEN 0 ELSE EntryStart(texts, m) + 3 + Len(texts[m])
        /\ \A i \in 1..m :
              LET s == EntryStart(texts, i)
              IN  /\ SubSeq(context, s, s + 3) = <<"[Context ", ToString(i), "]", NL>>
                  /\ SubSeq(context, s + 4, s + 3 + Len(texts[i])) = texts[i]
                  /\ i < m => SubSeq(context, s + 4 + Len(texts[i]),
                                     s + 5 + Len(texts[i])) = <<NL, NL>>

\* The prompt ends with the context, a blank line, "Query: " and the query, a
\* blank line and "Answer:".
PromptOf(prompt, context, query) ==
    LET tail == context \o <<NL, NL, "Query: ">> \o query \o <<NL, NL, "Answer:">>
    IN  /\ Len(prompt) >= Len(tail)
        /\ SubSeq(prompt, Len(prompt) - Len(tail) + 1, Len(prompt)) = tail

\* C7: a query_with_context that succeeds answers with the context of the
\* retrieved chunk texts in descending score order, labelled from 1, none
\* omitted, deduplicated or reordered; with a prompt of that context, the
\* query and the Answer: cue; and with context_documents = min(context_k, p).
C7_ContextAssembly ==
    [][\A query \in Queries, k \in Ks, c \in Names, fault \in Faults :
           (QueryWithContext(query, k, c, fault) /\ response'.status_code = 200) =>
               /\ ContextOf(response'.body.context, Retrieved(query, k))
               /\ PromptOf(response'.body.prompt, response'.body.context, query)
               /\ response'.body.context_documents
                      = Min(k, Cardinality(Default.points))]_vars

\* C7's case: a context of three chunks, two of them with the same text.
C7_Witness ==
    /\ response.op = "query_with_context"
    /\ response.status_code = 200
    /\ response.body.context_documents = 3
    /\ \E p \in Default.points, q \in Default.points :
          p.id # q.id /\ p.payload.page_content = q.payload.page_content

\* The ingestion calls that succeeded, whatever happened to their points later.
Succeeded == {c \in DOMAIN calls : calls[c].status \in {"ok", "deleted"}}

\* C8: ingestions never collide: once no ingestion call is running, the points
\* stored are the disjoint union of the points of the calls that succeeded:
\* every stored point is of a call that succeeded, and every call that
\* succeeded has as many points stored as it had chunks.
C8_DisjointUnion ==
    (\A c \in DOMAIN calls : calls[c].status # "running") =>
        /\ \A n \in Names : \A p \in store[n].points : p.call \in Succeeded
        /\ \A c \in Succeeded : Cardinality(PointsOf(c)) = Len(calls[c].texts)

\* C9: errors keep their kind: search_knowledge, add_knowledge and
\* query_with_context asked while the vectorstore is not initialised answer
\* 503 "Vectorstore not initialized"; update_knowledge_index and
\* list_knowledge_collections asked while the client is not initialised
\* answer 503 "Qdrant client not initialized".
C9_ErrorsKeepKind ==
    [][/\ ( /\ vectorstore = None
            /\ \/ \E query \in Queries, k \in Ks, c \in Names, fault \in Faults :
                      \/ SearchKnowledge(query, k, c, fault)
                      \/ QueryWithContext(query, k, c, fault)
               \/ \E doc \in AddContents, c \in Names, fault \in Faults :
                      AddKnowledge(doc[1], doc[2], c, fault) )
          => /\ response'.status_code = 503
             /\ response'.detail = <<"Vectorstore not initialized">>
       /\ ( /\ ~qdrant_client
            /\ \/ \E c \in Names, force_rebuild \in BOOLEAN, fault \in StoreFaults :
                      UpdateKnowledgeIndex(c, force_rebuild, fault)
               \/ \E fault \in StoreFaults : ListKnowledgeCollections(fault) )
          => /\ response'.status_code = 503
             /\ response'.detail = <<"Qdrant client not initialized">>]_vars

\* A step of one of the read paths.
ReadStep ==
    \/ \E query \in Queries, k \in Ks, c \in Names, fault \in Faults :
           \/ SearchKnowledge(query, k, c, fault)
           \/ QueryWithContext(query, k, c, fault)
    \/ \E c \in Names, force_rebuild \in BOOLEAN, fault \in StoreFaults :
           UpdateKnowledgeIndex(c, force_rebuild, fault)
    \/ \E fault \in StoreFaults : ListKnowledgeCollections(fault)
    \/ \E c \in Names, fault \in StoreFaults : GetCollectionStatsResource(c, fault)

\* C10: the read paths leave the collections and their points unchanged, and
\* the stats resource answers "Collection not found" exactly when the
\* collection named is absent from the store.
C10_ReadPathsReportAbsence ==
    [][/\ ReadStep => store' = store
       /\ \A c \in Names, fault \in StoreFaults :
             GetCollectionStatsResource(c, fault) =>
                 ( ( /\ response'.status_code = 404
                     /\ response'.detail = <<"Collection not found: ", c>> )
                   <=> ~store[c].exists )]_vars

\* The overlaps a chunk may share with its predecessor: the lengths k, at most
\* chunk_overlap, for which the last k characters of prev are the first k of
\* cur.
SharedOverlaps(prev, cur) ==
    {k \in 0..Min(chunk_overlap, Min(Len(prev), Len(cur))) :
        SubSeq(prev, Len(prev) - k + 1, Len(prev)) = SubSeq(cur, 1, k)}

\* The texts the chunks cs concatenate to, in order, once a shared overlap is
\* removed from each chunk after the first.
RECURSIVE Rebuilt(_)
Rebuilt(cs) ==
    IF cs = <<>> THEN {<<>>}
    ELSE IF Len(cs) = 1 THEN {cs[1]}
    ELSE LET n == Len(cs)
         IN  {r \o SubSeq(cs[n], k + 1, Len(cs[n])) :
                 r \in Rebuilt(SubSeq(cs, 1, n - 1)),
                 k \in SharedOverlaps(cs[n - 1], cs[n])}

\* The hard-cut case: the text has a run of more than chunk_size characters
\* with no separator in it, which only the empty separator can split.
HardCut(t) ==
    \E i \in 1..Len(t) :
        /\ i + chunk_size <= Len(t)
        /\ \A j \in i..(i + chunk_size) : ~IsSpace(t[j])

\* The chunk texts chunk_documents made of the d-th document.
ChunksOf(d) ==
    [j \in 1..Len(split_text(documents[d][1])) |-> chunks[ChunksBefore(d) + j][1]]

\* C11: chunking round-trips: the chunks of every document without a hard
\* cut, concatenated in order with the overlap each shares with its
\* predecessor removed, are the document's text.
C11_ChunkRoundTrip ==
    \A d \in 1..Len(documents) :
        ~HardCut(documents[d][1]) => documents[d][1] \in Rebuilt(ChunksOf(d))

\* C12 as stated: whenever startup_event has completed the default collection
\* exists, whatever the server's endpoints and the setup script did since, and
\* a stats request for it that reaches the store is answered with success.
C12_DefaultPersists ==
    [][/\ server_pc' = "ready" => store'[COLLECTION_NAME].exists
       /\ (GetCollectionStatsResource(COLLECTION_NAME, "none") /\ server_pc = "ready")
              => response'.status_code = 200]_vars

\* C12 amended: the default collection exists when startup_event completes;
\* after that no step but setup_qdrant_collection's delete_collection removes
\* it; and while it exists a stats request for it that reaches the store is
\* answered with success and the collection's point count.
C12_ServerKeepsDefault ==
    [][/\ (server_pc # "ready" /\ server_pc' = "ready")
              => store'[COLLECTION_NAME].exists
       /\ (server_pc = "ready" /\ Default.exists /\ ~store'[COLLECTION_NAME].exists)
              => (setup_pc = "delete" /\ setup_pc' = "create")
       /\ ( /\ GetCollectionStatsResource(COLLECTION_NAME, "none")
            /\ server_pc = "ready"
            /\ Default.exists )
              => /\ response'.status_code = 200
                 /\ response'.body.stats.points_count = Cardinality(Default.points)]_vars

\* C12's case: after startup and after the setup script ran to its end, a
\* stats request for the default collection, which holds points, succeeded.
C12_Witness ==
    /\ server_pc = "ready"
    /\ setup_pc = "done"
    /\ Default.points # {}
    /\ response.op = "get_collection_stats_resource"
    /\ response.status_code = 200
    /\ response.body.collection = COLLECTION_NAME

\* The derived metadata keys.
Reserved == {"chunk_index", "total_chunks", "added_at"}

\* The metadata stored with a point: the payload's metadata mapping where the
\* payload has one (add_texts), the payload's own keys besides the text where
\* the metadata is spread into the payload (index_documents).
StoredMetadataKeys(p) ==
    IF "metadata" \in DOMAIN p.payload THEN DOMAIN p.payload.metadata
    ELSE DOMAIN p.payload \ {"text"}

AllPoints == UNION {store[n].points : n \in Names}

\* C13: every stored chunk, of either ingestion path, carries chunk_index,
\* total_chunks and added_at.
C13_DerivedKeysStored ==
    \A p \in AllPoints : Reserved \subseteq StoredMetadataKeys(p)

\* C14: in every state health_check returns without error; it reports
\* qdrant, embeddings and vectorstore "healthy" exactly when that handle is
\* initialised, "unavailable" otherwise, and the overall status "healthy"
\* exactly when all three handles are, "degraded" otherwise; the vectorstore
\* is initialised only when the client and the embeddings are.
C14_HealthReportsReadiness ==
    LET answer == health_check
        services == answer.value.services
        reports(service, handle) ==
            /\ services[service] \in {"healthy", "unavailable"}
            /\ services[service] = "healthy" <=> handle
    IN  /\ ~answer.raised
        /\ reports("qdrant", qdrant_client)
        /\ reports("embeddings", embeddings)
        /\ reports("vectorstore", vectorstore # None)
        /\ answer.value.status \in {"healthy", "degraded"}
        /\ answer.value.status = "healthy"
               <=> (qdrant_client /\ embeddings /\ vectorstore # None)
        /\ vectorstore # None => (qdrant_client /\ embeddings)

\* C14's case: startup_event completed without an embedding credential and a
\* health check was answered "degraded", the client alone being healthy.
C14_Witness ==
    /\ server_pc = "ready"
    /\ qdrant_client /\ ~embeddings /\ vectorstore = None
    /\ response.op = "health_check"
    /\ response.status_code = 200
    /\ response.body.status = "degraded"
    /\ response.body.services.qdrant = "healthy"
    /\ response.body.services.embeddings = "unavailable"

\* The points a step upserted into the default collection.
NewPoints == store'[COLLECTION_NAME].points \ store[COLLECTION_NAME].points

\* C15: index_documents is one-to-one and order-preserving: every batch it
\* upserts holds at most batch_size points and covers the chunks that follow
\* the chunks indexed so far, as far as the batch size or the last chunk, the
\* point of each chunk carrying the chunk's text, the embedding of that text
\* and the chunk's metadata, in chunk order; and when it has succeeded on n
\* chunks it has upserted n points (also for n = 0 and n no multiple of the
\* batch size).
C15_BatchesOneToOne ==
    [][/\ \A fault \in Faults :
             (IndexBatch(fault) /\ setup_pc' # "index_failed") =>
                 /\ total_indexed' = Min(total_indexed + batch_size, Len(chunks))
                 /\ Cardinality(NewPoints) = total_indexed' - total_indexed
                 /\ Cardinality(NewPoints) <= batch_size
                 /\ \A i \in (total_indexed + 1)..total_indexed' :
                        \E p \in NewPoints :
                            /\ p.id = next_id + (i - total_indexed - 1)
                            /\ p.payload.text = chunks[i][1]
                            /\ p.vector = embed_documents(<<chunks[i][1]>>)[1]
                            /\ \A key \in DOMAIN chunks[i][2] :
                                   p.payload[key] = chunks[i][2][key]
                            /\ DOMAIN p.payload = DOMAIN chunks[i][2] \cup {"text"}
       /\ (setup_pc # "done" /\ setup_pc' = "done") =>
             /\ total_indexed' = Len(chunks)
             /\ calls'[setup_call'].status = "ok"
             /\ Cardinality({p \in store'[COLLECTION_NAME].points : p.call = setup_call'})
                    = Len(chunks)]_vars

\* C15's case: index_documents succeeded on three chunks, in a full batch and
\* a batch of one.
C15_Witness ==
    /\ setup_pc = "done"
    /\ Len(chunks) = 3
    /\ total_indexed = 3
    /\ Cardinality(PointsOf(setup_call)) = 3

\* add_knowledge: the metadata stored with each chunk of a successful call
\* has the computed chunk_index, total_chunks and added_at, whatever the
\* request's metadata carries under those keys, and the request's other keys
\* unchanged.
AddReservedKeysWin ==
    \A doc \in AddContents, c \in Names, fault \in Faults :
        (AddKnowledge(doc[1], doc[2], c, fault) /\ response'.status_code = 200) =>
            /\ Cardinality(NewPoints) = response'.body.chunks_added
            /\ \A p \in NewPoints :
                  /\ DOMAIN p.payload.metadata = DOMAIN doc[2] \cup Reserved
                  /\ p.payload.metadata.chunk_index = p.id - next_id
                  /\ p.payload.metadata.total_chunks = response'.body.chunks_added
                  /\ p.payload.metadata.added_at = utcnow
                  /\ \A key \in DOMAIN doc[2] \ Reserved :
                         p.payload.metadata[key] = doc[2][key]

\* index_documents after chunk_documents: the same of the metadata stored
\* with each chunk of a document.
SetupReservedKeysWin ==
    \A fault \in Faults :
        IndexBatch(fault) =>
            \A p \in NewPoints :
                /\ Reserved \subseteq DOMAIN p.payload
                /\ p.payload.chunk_index = chunks[total_indexed + 1 + p.id - next_id][2].chunk_index
                /\ \E d \in 1..Len(documents) :
                       /\ p.payload.total_chunks = Len(split_text(documents[d][1]))
                       /\ \A key \in DOMAIN documents[d][2] \ Reserved :
                              p.payload[key] = documents[d][2][key]

\* C16: the reserved keys always win: on both ingestion paths the metadata
\* stored with each chunk has the computed values for chunk_index,
\* total_chunks and added_at and the caller's other keys unchanged.
C16_ReservedKeysWin == [][AddReservedKeysWin /\ SetupReservedKeysWin]_vars

\* C17: creation on startup is safe under concurrency: two server processes
\* running startup_event against a store without the default collection,
\* the store answering every call, both complete startup without error in
\* every interleaving, and the default collection exists once they have.
C17_ConcurrentStartupSafe ==
    /\ server_pc # "failed"
    /\ peer_pc # "failed"
    /\ (server_pc = "ready" /\ peer_pc = "ready") => Default.exists

\* C18: every point index_documents builds has, as its payload's text, the
\* text of the chunk its vector is the embedding of, whatever the chunk's
\* metadata.
C18_PayloadTextIsChunkText ==
    [][\A fault \in Faults :
           IndexBatch(fault) =>
               \A p \in NewPoints :
                   LET chunk == chunks[total_indexed + 1 + (p.id - next_id)]
                   IN  /\ p.vector = embed_documents(<<chunk[1]>>)[1]
                       /\ p.payload.text = chunk[1]]_vars

====
